---- MODULE Spec2Model ----
(***************************************************************************)
(* Model of the paginated activity fetch of scrape_trades.py:               *)
(* parse_activity_response (the response decoder) and fetch_activity (the   *)
(* pagination loop), together with the HTTP source they talk to and the     *)
(* caller that receives the result.  Three specifications: Spec, one fetch; *)
(* DecoderSpec, the decoder applied to one body; ConcurrentSpec, two calls  *)
(* of fetch_activity interleaved; PacingSpec, one fetch with and without a  *)
(* pacing delay.  StreamSpec models the reconnect loop of stream_scores of  *)
(* main.py.                                                                 *)
(***************************************************************************)
EXTENDS Integers, Sequences, FiniteSets, TLC

VARIABLES
    limit,              \* parameter: page size
    max_pages,          \* parameter: [some |-> BOOLEAN, val |-> Int], Optional[int]
    sleep,              \* parameter: pacing delay (0 = none)
    all_items,          \* accumulator
    offset,
    cursor,             \* None or a token
    seen_cursors,
    page,               \* page counter
    seen_fingerprints,
    items,              \* decoded items of the page in hand
    next_cursor,        \* decoded next cursor of the page in hand
    has_more,           \* decoded flag of the page in hand: "None", "True", "False"
    pc,                 \* position of the fetch
    requests,           \* history: parameters of every request issued
    served,             \* history: the items of every page decoded, in order
    metadataSeen,       \* history: some decoded body carried pagination metadata
    lastResponse,       \* history: kind of the most recent reply of the source
    stop,               \* which break statement ended the loop
    raised,             \* exception that left fetch_activity, or "none"
    result,             \* main's `items`: what the caller received
    pauses,             \* history: number of time.sleep calls
    printed,            \* history: the lines this call has printed
    payload,            \* DecoderSpec: the body handed to parse_activity_response
    condition_id,       \* parameter: the market of the call in focus
    parked,             \* ConcurrentSpec: <<frame>> of the suspended other call, or <<>>
    game_name,          \* stream_scores, parameter: None or a game
    backoff,            \* stream_scores: reconnect backoff, in milliseconds
    err,                \* stream_scores: None, or the kind of the exception caught
    sleep_for,          \* stream_scores: the pause computed last, in milliseconds
    spc,                \* stream_scores: position of the coroutine
    failures            \* stream_scores, history: failed attempts since the last
                        \* acknowledged connection

vars == <<limit, max_pages, sleep, all_items, offset, cursor, seen_cursors, page,
          seen_fingerprints, items, next_cursor, has_more, pc, requests, served,
          metadataSeen, lastResponse, stop, raised, result, pauses, printed, payload,
          condition_id, parked, game_name, backoff, err, sleep_for, spc, failures>>

-----------------------------------------------------------------------------
(* Bounds of the explored inputs *)

\* total number of items the source serves during one fetch
MaxItems == 5
\* largest page size parameter tried
MaxLimit == 2
\* largest page ceiling tried
MaxCeiling == 1

\* ConcurrentSpec: number of items the source serves to each of the two calls
MaxItemsConcurrent == 1

\* DecoderSpec: largest page inside a body handed to the decoder
MaxDecoderItems == 1

\* StreamSpec: failed attempts in a row tried
MaxFailures == 7

\* main.py lines 202-204, in milliseconds
InitialBackoff == 500
backoff_max == 10000
policy_backoff == 30000

\* default of the `limit` parameter
DefaultLimit == 50

\* default of the `sleep` parameter, in milliseconds; main never overrides it
DefaultSleepMs == 200

-----------------------------------------------------------------------------
(* Python values *)

None == "None"

\* JSON values as they come out of response.json()
JNull == [t |-> "null", s |-> "", l |-> <<>>]
JStr(x) == [t |-> "str", s |-> x, l |-> <<>>]
JBool(b) == [t |-> IF b THEN "true" ELSE "false", s |-> "", l |-> <<>>]
JList(p) == [t |-> "list", s |-> "", l |-> p]

\* Python truthiness of a JSON value
Truthy(v) ==
    CASE v.t = "null" -> FALSE
      [] v.t = "str" -> v.s # ""
      [] v.t = "true" -> TRUE
      [] v.t = "false" -> FALSE
      [] v.t = "list" -> v.l # <<>>

\* dict.get(key): the value, or None
Get(d, key) == IF key \in DOMAIN d THEN d[key] ELSE JNull

EmptyDict == [k \in {} |-> JNull]

\* `for key in keys: if P(key): ... break`: the keys that satisfy P, in order;
\* the loop stops at the first
Matching(keys, P(_)) == SelectSeq(keys, P)

RECURSIVE Flatten(_)
Flatten(pages) ==
    IF pages = <<>> THEN <<>> ELSE Head(pages) \o Flatten(Tail(pages))

Last(s) == s[Len(s)]

-----------------------------------------------------------------------------
(* parse_activity_response *)

ItemKeys == <<"activity", "items", "results", "data", "result">>
TopCursorKeys == <<"nextCursor", "next_cursor", "cursor", "next">>
PaginationCursorKeys == <<"nextCursor", "next_cursor", "cursor", "next", "nextPageToken">>
HasMoreKeys == <<"hasMore", "has_more">>

\* A response body: kind "list" (a bare array, in `list`), "dict" (an object:
\* its keys other than "pagination" in `top`; `pagIsDict` tells whether the
\* "pagination" key holds an object, then in `pag`) or "other".
ParseError == [ok |-> FALSE, items |-> <<>>, cursor |-> None, has_more |-> "None"]

ParseItems(data) ==
    LET m == Matching(ItemKeys, LAMBDA k : Get(data.top, k).t = "list")
    IN IF m = <<>> THEN [found |-> FALSE, items |-> <<>>]
       ELSE [found |-> TRUE, items |-> data.top[Head(m)].l]

ParseCursor(data) ==
    LET m == Matching(TopCursorKeys, LAMBDA k : Truthy(Get(data.top, k)))
        pagination == IF data.pagIsDict THEN data.pag ELSE EmptyDict
        n == Matching(PaginationCursorKeys, LAMBDA k : Truthy(Get(pagination, k)))
    IN IF m # <<>> THEN data.top[Head(m)].s
       ELSE IF DOMAIN pagination # {} /\ n # <<>> THEN pagination[Head(n)].s
       ELSE None

PyBool(v) == IF Truthy(v) THEN "True" ELSE "False"

ParseHasMore(data) ==
    LET m == Matching(HasMoreKeys, LAMBDA k : k \in DOMAIN data.top)
        pagination == IF data.pagIsDict THEN data.pag ELSE EmptyDict
        n == Matching(HasMoreKeys, LAMBDA k : k \in DOMAIN pagination)
    IN IF m # <<>> THEN PyBool(data.top[Head(m)])
       ELSE IF DOMAIN pagination # {} /\ n # <<>> THEN PyBool(pagination[Head(n)])
       ELSE "None"

\* variant: a dict without a recognized list is taken as an empty page
parse_activity_response_Lenient(data) ==
    IF data.kind = "list"
    THEN [ok |-> TRUE, items |-> data.list, cursor |-> None, has_more |-> "None"]
    ELSE IF data.kind # "dict" THEN ParseError
    ELSE [ok |-> TRUE, items |-> ParseItems(data).items,
          cursor |-> ParseCursor(data), has_more |-> ParseHasMore(data)]

parse_activity_response(data) ==
    IF data.kind = "list"
    THEN [ok |-> TRUE, items |-> data.list, cursor |-> None, has_more |-> "None"]
    ELSE IF data.kind # "dict" THEN ParseError
    ELSE LET found == ParseItems(data)
         IN IF ~found.found THEN ParseError
            ELSE [ok |-> TRUE, items |-> found.items,
                  cursor |-> ParseCursor(data), has_more |-> ParseHasMore(data)]

-----------------------------------------------------------------------------
(* fetch_activity: helpers *)

FingerprintKeys == <<"transactionHash", "txHash", "hash", "id", "timestamp">>

pick_key(item) ==
    LET m == Matching(FingerprintKeys, LAMBDA k : k \in DOMAIN item)
    IN IF m = <<>> THEN None ELSE item[Head(m)]

\* the items served here are all JSON objects, so line 194 takes the dict
\* branch; <<>> stands for the None of an empty page
page_fingerprint(its) ==
    IF its = <<>> THEN <<>>
    ELSE <<pick_key(its[1]), pick_key(Last(its)), Len(its)>>

\* variant: the offset sent along with the cursor
BuildParams_Both(cur, off) ==
    IF cur # None
    THEN [hasCursor |-> TRUE, cursor |-> cur, hasOffset |-> TRUE, offset |-> off]
    ELSE [hasCursor |-> FALSE, cursor |-> None, hasOffset |-> TRUE, offset |-> off]

\* lines 212-215: the pagination parameters of the request
BuildParams(cur, off) ==
    IF cur # None
    THEN [hasCursor |-> TRUE, cursor |-> cur, hasOffset |-> FALSE, offset |-> 0]
    ELSE [hasCursor |-> FALSE, cursor |-> None, hasOffset |-> TRUE, offset |-> off]

\* variant: the empty test left out
PageEmpty_Never(its) == FALSE

\* line 222
PageEmpty(its) == its = <<>>

\* variant: the fingerprint guard left out
PageRepeated_Never(cur, fingerprint, seen) == FALSE

\* variant: the fingerprint test applied whatever the mode
PageRepeated_AnyMode(cur, fingerprint, seen) == fingerprint \in seen

\* line 226
PageRepeated(cur, fingerprint, seen) == cur = None /\ fingerprint \in seen

\* variant: fingerprints recorded only for pages requested by offset
RecordFingerprint_OffsetOnly(cur, fingerprint, seen) ==
    IF cur = None THEN seen \cup {fingerprint} ELSE seen

\* line 229
RecordFingerprint(cur, fingerprint, seen) == seen \cup {fingerprint}

\* variants: the page put in front of the accumulator; the accumulator
\* replaced by the page; the items already accumulated left out of the page
Extend_Deduplicating(acc, its) ==
    acc \o SelectSeq(its, LAMBDA x : \A i \in 1..Len(acc) : acc[i] # x)
Extend_Prepend(acc, its) == its \o acc
Extend_Overwrite(acc, its) == its

\* line 231
Extend(acc, its) == acc \o its

\* variant: the next cursor ignored
CursorSupplied_Ignored(nc) == FALSE

\* line 238
CursorSupplied(nc) == nc # None

\* variant: the repeated-cursor test left out
CursorRepeated_Unchecked(nc, seen) == FALSE

\* line 239
CursorRepeated(nc, seen) == nc \in seen

\* variant: a full page counted as short
ShortPage_Inclusive(its, lim) == Len(its) <= lim

\* line 246
ShortPage(its, lim) == Len(its) < lim

\* variant: the offset advanced by one per page
AdvanceOffset_ByPage(off, its) == off + 1

\* line 248
AdvanceOffset(off, its) == off + Len(its)

\* variant: the flag test inverted
FlagStops_Inverted(hm) == hm = "True"

\* line 250
FlagStops(hm) == hm = "False"

\* line 253
CeilingReached(mp, pg) == mp.some /\ pg >= mp.val

-----------------------------------------------------------------------------
(* The source: what the endpoint may answer *)

\* activity items: JSON objects, as functions from their keys to values
ItemA == [transactionHash |-> "0xaa", id |-> "7"]
ItemC == [side |-> "SELL"]
Items == {ItemA, ItemC}

Tokens == {"a", "b"}

\* every page of at most n items
Pages(n) == UNION {[1..k -> Items] : k \in 0..n}

ListBody(p) ==
    [kind |-> "list", list |-> p, top |-> EmptyDict, pagIsDict |-> FALSE, pag |-> EmptyDict]
DictBody(top, pagIsDict, pag) ==
    [kind |-> "dict", list |-> <<>>, top |-> top, pagIsDict |-> pagIsDict, pag |-> pag]
OtherBody ==
    [kind |-> "other", list |-> <<>>, top |-> EmptyDict, pagIsDict |-> FALSE, pag |-> EmptyDict]

Field(present, key, val) == IF present THEN key :> val ELSE EmptyDict

\* optional values a metadata key may carry (JNull: the key is absent)
CursorValues == {JNull} \cup {JStr(c) : c \in Tokens}
FlagValues == {JNull, JBool(TRUE), JBool(FALSE)}

\* the bodies that carry page p: a bare array;
\* {"activity": p, "nextCursor"?: c, "hasMore"?: h};
\* {"result": p, "pagination": {"nextPageToken": "a"}} and {.. {"has_more": false}};
\* metadata at both levels with a non-list under an earlier recognized key;
\* an empty cursor; a null flag
BodiesOf(p) ==
    {ListBody(p)}
    \cup {DictBody(("activity" :> JList(p)) @@ Field(c # JNull, "nextCursor", c)
                      @@ Field(h # JNull, "hasMore", h), FALSE, EmptyDict) :
             <<c, h>> \in CursorValues \X FlagValues}
    \cup {DictBody("result" :> JList(p), TRUE, "nextPageToken" :> JStr("a")),
          DictBody("result" :> JList(p), TRUE, "has_more" :> JBool(FALSE))}
    \cup {DictBody(("data" :> JStr("x")) @@ ("items" :> JList(p)) @@ ("cursor" :> JStr("a"))
                      @@ ("has_more" :> JBool(TRUE)),
                   TRUE, ("next" :> JStr("b")) @@ ("hasMore" :> JBool(FALSE))),
          DictBody(("items" :> JList(p)) @@ ("next" :> JStr("")), FALSE, EmptyDict),
          DictBody(("results" :> JList(p)) @@ ("hasMore" :> JNull), FALSE, EmptyDict)}

\* shapes holding no list under a recognized key
UnrecognizedBodies ==
    {OtherBody,
     DictBody("foo" :> JList(<<ItemA>>), FALSE, EmptyDict),
     DictBody(("data" :> JStr("x")) @@ ("nextCursor" :> JStr("a")), FALSE, EmptyDict),
     DictBody(EmptyDict, TRUE, "hasMore" :> JBool(TRUE))}

\* the shape test in the words of the interface: a bare sequence, or an object
\* with a sequence under one of the recognized keys
IsRecognizedShape(data) ==
    \/ data.kind = "list"
    \/ /\ data.kind = "dict"
       /\ \E i \in 1..Len(ItemKeys) :
             ItemKeys[i] \in DOMAIN data.top /\ data.top[ItemKeys[i]].t = "list"

\* the body carries a cursor key, a flag key or a pagination object
HasMetadata(data) ==
    /\ data.kind = "dict"
    /\ \/ data.pagIsDict
       \/ \E i \in 1..Len(PaginationCursorKeys) : PaginationCursorKeys[i] \in DOMAIN data.top
       \/ \E i \in 1..Len(HasMoreKeys) : HasMoreKeys[i] \in DOMAIN data.top

-----------------------------------------------------------------------------
(* fetch_activity *)

\* stream_scores not called
StreamNotStarted ==
    /\ game_name = None
    /\ backoff = InitialBackoff
    /\ err = None
    /\ sleep_for = 0
    /\ spc = "idle"
    /\ failures = 0

stream == <<game_name, backoff, err, sleep_for, spc, failures>>

NoCeiling == [some |-> FALSE, val |-> 0]
Ceiling(n) == [some |-> TRUE, val |-> n]

Init ==
    /\ limit \in 1..MaxLimit
    /\ max_pages \in {NoCeiling} \cup {Ceiling(n) : n \in 0..MaxCeiling}
    /\ sleep = DefaultSleepMs
    /\ all_items = <<>>
    /\ offset = 0
    /\ cursor = None
    /\ seen_cursors = {}
    /\ page = 0
    /\ seen_fingerprints = {}
    /\ items = <<>>
    /\ next_cursor = None
    /\ has_more = "None"
    /\ pc = "loop"
    /\ requests = <<>>
    /\ served = <<>>
    /\ metadataSeen = FALSE
    /\ lastResponse = "none"
    /\ stop = "none"
    /\ raised = "none"
    /\ result = <<>>
    /\ pauses = 0
    /\ printed = <<>>
    /\ payload = OtherBody
    /\ condition_id = "m1"
    /\ parked = <<>>
    /\ StreamNotStarted

params == <<limit, max_pages, sleep>>
fetchState == <<all_items, offset, cursor, seen_cursors, page, seen_fingerprints>>
locals == <<items, next_cursor, has_more>>
history == <<served, metadataSeen, printed>>
\* what a step of the call in focus never touches
context == <<payload, condition_id, parked, stream>>

\* lines 205-217: build the parameters and issue the request
SendRequest ==
    /\ pc = "loop"
    /\ requests' = Append(requests, BuildParams(cursor, offset))
    /\ pc' = "await"
    /\ UNCHANGED <<params, fetchState, locals, history, lastResponse, stop, raised,
                   result, pauses, context>>

\* an exception leaves fetch_activity: nothing is assigned to the caller's items
Raise(exc) ==
    /\ pc' = "raised"
    /\ raised' = exc
    /\ UNCHANGED <<params, fetchState, requests, stop, result, pauses, context>>

\* line 217: requests.get raises (connection failure, timeout)
ConnectionFails ==
    /\ pc = "await"
    /\ lastResponse' = "connection_error"
    /\ Raise("ConnectionError")
    /\ UNCHANGED <<locals, history>>

\* variant: the status is not checked and the error reply ends the fetch as
\* if it were an empty page
HttpError_Swallowed ==
    /\ pc = "await"
    /\ lastResponse' = "http_error"
    /\ pc' = "returned"
    /\ stop' = "empty"
    /\ result' = all_items
    /\ UNCHANGED <<params, fetchState, locals, history, requests, raised, pauses, context>>

\* line 218: a non-success status, raise_for_status raises
HttpError ==
    /\ pc = "await"
    /\ lastResponse' = "http_error"
    /\ Raise("HTTPError")
    /\ UNCHANGED <<locals, history>>

\* line 219: the body is not JSON, response.json() raises
NotJson ==
    /\ pc = "await"
    /\ lastResponse' = "not_json"
    /\ Raise("JSONDecodeError")
    /\ UNCHANGED <<locals, history>>

\* `break`, then line 259
Return(why, acc) ==
    /\ stop' = why
    /\ pc' = "returned"
    /\ result' = acc

\* lines 250-254
LoopTail(hm, acc, pg) ==
    IF FlagStops(hm) THEN Return("has_more_false", acc)
    ELSE IF CeilingReached(max_pages, pg) THEN Return("max_pages", acc)
    ELSE /\ pc' = "sleep"
         /\ UNCHANGED <<stop, result>>

\* the lines printed at lines 227, 233-236 and 240
PageRepeatedMessage ==
    [text |-> "Pagination page repeated; stopping to avoid a loop.",
     page |-> 0, rows |-> 0, total |-> 0]
CursorRepeatedMessage ==
    [text |-> "Pagination cursor repeated; stopping to avoid a loop.",
     page |-> 0, rows |-> 0, total |-> 0]
ProgressMessage(pg, rows, total) ==
    [text |-> "page", page |-> pg, rows |-> rows, total |-> total]

\* variant: the repeated-cursor break taken without its message
PrintCursorRepeated_Silent(out) == out

\* line 240
PrintCursorRepeated(out) == Append(out, CursorRepeatedMessage)

\* lines 222-254: the rest of the loop body, on the decoded page
ProcessPage(its, nc, hm) ==
    IF PageEmpty(its)
    THEN /\ Return("empty", all_items)
         /\ UNCHANGED <<fetchState, printed>>
    ELSE LET fingerprint == page_fingerprint(its)
             acc == Extend(all_items, its)
             pg == page + 1
             progress == Append(printed, ProgressMessage(pg, Len(its), Len(acc)))
         IN
         IF PageRepeated(cursor, fingerprint, seen_fingerprints)
         THEN /\ Return("page_repeated", all_items)
              /\ printed' = Append(printed, PageRepeatedMessage)
              /\ UNCHANGED fetchState
         ELSE
            /\ seen_fingerprints' = RecordFingerprint(cursor, fingerprint, seen_fingerprints)
            /\ all_items' = acc
            /\ page' = pg
            /\ IF CursorSupplied(nc)
               THEN IF CursorRepeated(nc, seen_cursors)
                    THEN /\ Return("cursor_repeated", acc)
                         /\ printed' = PrintCursorRepeated(progress)
                         /\ UNCHANGED <<offset, cursor, seen_cursors>>
                    ELSE /\ seen_cursors' = seen_cursors \cup {nc}
                         /\ cursor' = nc
                         /\ printed' = progress
                         /\ UNCHANGED offset
                         /\ LoopTail(hm, acc, pg)
               ELSE /\ cursor' = None
                    /\ printed' = progress
                    /\ UNCHANGED seen_cursors
                    /\ IF ShortPage(its, limit)
                       THEN /\ Return("short_page", acc)
                            /\ UNCHANGED offset
                       ELSE /\ offset' = AdvanceOffset(offset, its)
                            /\ LoopTail(hm, acc, pg)

\* lines 219-254 on a JSON body: decode it, then run the loop body on the page
Decode(data) ==
    \E parsed \in {parse_activity_response(data)} :
       /\ lastResponse' = IF IsRecognizedShape(data) THEN "page" ELSE "unrecognized"
       /\ IF parsed.ok
          THEN /\ items' = parsed.items
               /\ next_cursor' = parsed.cursor
               /\ has_more' = parsed.has_more
               /\ served' = Append(served, parsed.items)
               /\ metadataSeen' = (metadataSeen \/ HasMetadata(data))
               /\ ProcessPage(parsed.items, parsed.cursor, parsed.has_more)
               /\ UNCHANGED <<params, requests, raised, pauses, context>>
          ELSE /\ Raise("RuntimeError")
               /\ UNCHANGED <<locals, history>>

\* the items the source may still serve to the call in focus
ItemsLeft ==
    (IF parked = <<>> THEN MaxItems ELSE MaxItemsConcurrent) - Len(Flatten(served))

\* lines 217-254: a success status with a JSON body
Receive ==
    /\ pc = "await"
    /\ \/ \E p \in Pages(ItemsLeft) : \E data \in BodiesOf(p) : Decode(data)
       \/ \E data \in UnrecognizedBodies : Decode(data)

\* variant: the pause taken whatever the delay
Sleep_Unconditional ==
    /\ pc = "sleep"
    /\ pauses' = pauses + 1
    /\ pc' = "loop"
    /\ UNCHANGED <<params, fetchState, locals, requests, history, lastResponse, stop,
                   raised, result, context>>

\* lines 256-257
Sleep ==
    /\ pc = "sleep"
    /\ pauses' = IF sleep # 0 THEN pauses + 1 ELSE pauses
    /\ pc' = "loop"
    /\ UNCHANGED <<params, fetchState, locals, requests, history, lastResponse, stop,
                   raised, result, context>>

Next ==
    \/ SendRequest
    \/ ConnectionFails
    \/ HttpError
    \/ NotJson
    \/ Receive
    \/ Sleep

Spec == Init /\ [][Next]_vars

-----------------------------------------------------------------------------
(* One fetch called with or without a pacing delay *)

\* the `sleep` argument zero or the default; the largest page size; no
\* ceiling or the largest one
InitPacing ==
    /\ limit = MaxLimit
    /\ max_pages \in {NoCeiling, Ceiling(MaxCeiling)}
    /\ sleep \in {0, DefaultSleepMs}
    /\ all_items = <<>>
    /\ offset = 0
    /\ cursor = None
    /\ seen_cursors = {}
    /\ page = 0
    /\ seen_fingerprints = {}
    /\ items = <<>>
    /\ next_cursor = None
    /\ has_more = "None"
    /\ pc = "loop"
    /\ requests = <<>>
    /\ served = <<>>
    /\ metadataSeen = FALSE
    /\ lastResponse = "none"
    /\ stop = "none"
    /\ raised = "none"
    /\ result = <<>>
    /\ pauses = 0
    /\ printed = <<>>
    /\ payload = OtherBody
    /\ condition_id = "m1"
    /\ parked = <<>>
    /\ StreamNotStarted

NextPacing ==
    \/ SendRequest
    \/ ConnectionFails
    \/ HttpError
    \/ NotJson
    \/ Receive
    \/ Sleep

PacingSpec == InitPacing /\ [][NextPacing]_vars

-----------------------------------------------------------------------------
(* parse_activity_response on its own *)

\* {"activity": p} with one cursor key, at the top level or under "pagination"
CursorBody(p, level, name, token) ==
    IF level = "top"
    THEN DictBody(("activity" :> JList(p)) @@ (name :> JStr(token)), FALSE, EmptyDict)
    ELSE DictBody("activity" :> JList(p), TRUE, name :> JStr(token))

\* the bodies tried: those of the fetch, and every placement of every cursor
\* name with an empty and a non-empty token
DecoderInputs ==
    UnrecognizedBodies
    \cup UNION {BodiesOf(p)
                 \cup {CursorBody(p, level, PaginationCursorKeys[i], token) :
                          <<level, i, token>> \in {"top", "pagination"}
                                                  \X (1..Len(PaginationCursorKeys))
                                                  \X ({""} \cup Tokens)} :
                p \in Pages(MaxDecoderItems)}

InitDecoder ==
    /\ payload \in DecoderInputs
    /\ pc = "decode"
    /\ limit = DefaultLimit
    /\ max_pages = NoCeiling
    /\ sleep = DefaultSleepMs
    /\ all_items = <<>>
    /\ offset = 0
    /\ cursor = None
    /\ seen_cursors = {}
    /\ page = 0
    /\ seen_fingerprints = {}
    /\ items = <<>>
    /\ next_cursor = None
    /\ has_more = "None"
    /\ requests = <<>>
    /\ served = <<>>
    /\ metadataSeen = FALSE
    /\ lastResponse = "none"
    /\ stop = "none"
    /\ raised = "none"
    /\ result = <<>>
    /\ pauses = 0
    /\ printed = <<>>
    /\ condition_id = "m1"
    /\ parked = <<>>
    /\ StreamNotStarted

\* items, next_cursor, has_more = parse_activity_response(payload)
ParseStep ==
    /\ pc = "decode"
    /\ \E parsed \in {parse_activity_response(payload)} :
          IF parsed.ok
          THEN /\ items' = parsed.items
               /\ next_cursor' = parsed.cursor
               /\ has_more' = parsed.has_more
               /\ pc' = "decoded"
               /\ UNCHANGED raised
          ELSE /\ pc' = "raised"
               /\ raised' = "RuntimeError"
               /\ UNCHANGED locals
    /\ UNCHANGED <<params, fetchState, requests, history, lastResponse, stop, result,
                   pauses, context>>

NextDecoder == ParseStep

DecoderSpec == InitDecoder /\ [][NextDecoder]_vars

-----------------------------------------------------------------------------
(* Two calls of fetch_activity, for two markets, interleaved *)

\* the frame of the call in focus: its locals, its position and its history
Frame ==
    [condition_id |-> condition_id, all_items |-> all_items, offset |-> offset,
     cursor |-> cursor, seen_cursors |-> seen_cursors, page |-> page,
     seen_fingerprints |-> seen_fingerprints, items |-> items,
     next_cursor |-> next_cursor, has_more |-> has_more, pc |-> pc,
     requests |-> requests, served |-> served, metadataSeen |-> metadataSeen,
     lastResponse |-> lastResponse, stop |-> stop, raised |-> raised,
     result |-> result, pauses |-> pauses, printed |-> printed]

\* the frame of a call that has not run yet
NewFrame(market) ==
    [condition_id |-> market, all_items |-> <<>>, offset |-> 0,
     cursor |-> None, seen_cursors |-> {}, page |-> 0,
     seen_fingerprints |-> {}, items |-> <<>>,
     next_cursor |-> None, has_more |-> "None", pc |-> "loop",
     requests |-> <<>>, served |-> <<>>, metadataSeen |-> FALSE,
     lastResponse |-> "none", stop |-> "none", raised |-> "none",
     result |-> <<>>, pauses |-> 0, printed |-> <<>>]

\* variant: the accumulator, the counters and the seen sets kept at module
\* level, one copy for all calls
CallLocal_ModuleLevel(ofCall, current) == current

\* lines 184-189 create the state inside the call: the resumed call finds its
\* own
CallLocal(ofCall, current) == ofCall

\* both calls get the same limit and max_pages from main (lines 566-571);
\* here the smallest and the largest page size, and no ceiling
InitConcurrent ==
    /\ limit \in {1, MaxLimit}
    /\ max_pages = NoCeiling
    /\ sleep = DefaultSleepMs
    /\ all_items = <<>>
    /\ offset = 0
    /\ cursor = None
    /\ seen_cursors = {}
    /\ page = 0
    /\ seen_fingerprints = {}
    /\ items = <<>>
    /\ next_cursor = None
    /\ has_more = "None"
    /\ pc = "loop"
    /\ requests = <<>>
    /\ served = <<>>
    /\ metadataSeen = FALSE
    /\ lastResponse = "none"
    /\ stop = "none"
    /\ raised = "none"
    /\ result = <<>>
    /\ pauses = 0
    /\ printed = <<>>
    /\ payload = OtherBody
    /\ condition_id = "m1"
    /\ parked = <<NewFrame("m2")>>
    /\ StreamNotStarted

\* the call in focus is suspended and the other one resumed
Switch ==
    /\ parked # <<>>
    /\ \E other \in {parked[1]} :
          /\ parked' = <<Frame>>
          /\ condition_id' = other.condition_id
          /\ all_items' = CallLocal(other.all_items, all_items)
          /\ offset' = CallLocal(other.offset, offset)
          /\ cursor' = CallLocal(other.cursor, cursor)
          /\ seen_cursors' = CallLocal(other.seen_cursors, seen_cursors)
          /\ page' = CallLocal(other.page, page)
          /\ seen_fingerprints' = CallLocal(other.seen_fingerprints, seen_fingerprints)
          /\ items' = other.items
          /\ next_cursor' = other.next_cursor
          /\ has_more' = other.has_more
          /\ pc' = other.pc
          /\ requests' = other.requests
          /\ served' = other.served
          /\ metadataSeen' = other.metadataSeen
          /\ lastResponse' = other.lastResponse
          /\ stop' = other.stop
          /\ raised' = other.raised
          /\ result' = other.result
          /\ pauses' = other.pauses
          /\ printed' = other.printed
    /\ UNCHANGED <<params, payload, stream>>

NextConcurrent ==
    \/ SendRequest
    \/ ConnectionFails
    \/ HttpError
    \/ NotJson
    \/ Receive
    \/ Sleep
    \/ Switch

ConcurrentSpec == InitConcurrent /\ [][NextConcurrent]_vars

-----------------------------------------------------------------------------
(* stream_scores (main.py): the reconnect loop *)

\* the variables of the fetch, which stream_scores does not touch
fetch == <<params, fetchState, locals, history, pc, requests, lastResponse, stop,
           raised, result, pauses, payload, condition_id, parked>>

Min(a, b) == IF a <= b THEN a ELSE b

\* what a failed attempt may raise: an error whose text holds "too many
\* concurrent connections" or "http 503", or any other error
ErrorKinds == {"policy", "other"}

\* the positions where the coroutine awaits
AwaitPoints == {"connect", "handshake", "subscribe", "streaming"}

\* random.uniform(0, base): the two ends and the middle
Jitter(base) == {0, base \div 2, base}

\* variant: the cap left out
NextBackoff_Uncapped(b) == b * 2

\* line 248
NextBackoff(b) == Min(b * 2, backoff_max)

\* variant: the handler catching only the policy errors
CaughtAsError_PolicyOnly(exc) == exc = "policy"

\* line 235: `except Exception` catches every connection error
CaughtAsError(exc) == TRUE

InitStream ==
    /\ limit = DefaultLimit
    /\ max_pages = NoCeiling
    /\ sleep = DefaultSleepMs
    /\ all_items = <<>>
    /\ offset = 0
    /\ cursor = None
    /\ seen_cursors = {}
    /\ page = 0
    /\ seen_fingerprints = {}
    /\ items = <<>>
    /\ next_cursor = None
    /\ has_more = "None"
    /\ pc = "loop"
    /\ requests = <<>>
    /\ served = <<>>
    /\ metadataSeen = FALSE
    /\ lastResponse = "none"
    /\ stop = "none"
    /\ raised = "none"
    /\ result = <<>>
    /\ pauses = 0
    /\ printed = <<>>
    /\ payload = OtherBody
    /\ condition_id = "m1"
    /\ parked = <<>>
    /\ game_name \in {None, "game"}
    /\ backoff = InitialBackoff
    /\ err = None
    /\ sleep_for = 0
    /\ spc = "connect"
    /\ failures = 0

\* lines 233-237: an exception raised inside the try block
Throw(exc) ==
    /\ IF exc = "CancelledError"
       THEN spc' = "cancelled" /\ UNCHANGED err
       ELSE IF CaughtAsError(exc)
       THEN spc' = "failed" /\ err' = exc
       ELSE spc' = "crashed" /\ UNCHANGED err
    /\ UNCHANGED <<game_name, backoff, sleep_for, failures, fetch>>

\* lines 209-216: the connection is established
Connect ==
    /\ spc = "connect"
    /\ spc' = "handshake"
    /\ UNCHANGED <<game_name, backoff, err, sleep_for, failures, fetch>>

\* lines 210-216: websockets.connect raises
ConnectFails ==
    /\ spc = "connect"
    /\ failures < MaxFailures
    /\ \E exc \in ErrorKinds : Throw(exc)

\* lines 217-220: the acknowledgement is received, the backoff reset
Acknowledge ==
    /\ spc = "handshake"
    /\ backoff' = InitialBackoff
    /\ failures' = 0
    /\ spc' = IF game_name # None THEN "subscribe" ELSE "streaming"
    /\ UNCHANGED <<game_name, err, sleep_for, fetch>>

\* line 217: recv raises before any acknowledgement
HandshakeFails ==
    /\ spc = "handshake"
    /\ failures < MaxFailures
    /\ \E exc \in ErrorKinds : Throw(exc)

\* lines 221-226: the subscription is sent
Subscribe ==
    /\ spc = "subscribe"
    /\ spc' = "streaming"
    /\ UNCHANGED <<game_name, backoff, err, sleep_for, failures, fetch>>

\* line 226: send raises
SubscribeFails ==
    /\ spc = "subscribe"
    /\ failures < MaxFailures
    /\ \E exc \in ErrorKinds : Throw(exc)

\* lines 227-232: a message is received and printed
Message ==
    /\ spc = "streaming"
    /\ UNCHANGED vars

\* lines 227, 239-240 and 207: the server closes cleanly, the loop continues
CleanClose ==
    /\ spc = "streaming"
    /\ spc' = "connect"
    /\ err' = None
    /\ UNCHANGED <<game_name, backoff, sleep_for, failures, fetch>>

\* lines 227-232: the connection breaks, or handling a message raises
StreamFails ==
    /\ spc = "streaming"
    /\ failures < MaxFailures
    /\ \E exc \in ErrorKinds : Throw(exc)

\* the task is cancelled while it awaits
Cancel ==
    /\ spc \in AwaitPoints
    /\ Throw("CancelledError")

\* lines 242-248 and 207: the pause, then the backoff doubled
Backoff ==
    /\ spc = "failed"
    /\ \E base \in {IF err = "policy" THEN policy_backoff ELSE backoff} :
          \E jitter \in Jitter(base) : sleep_for' = base + jitter
    /\ backoff' = NextBackoff(backoff)
    /\ failures' = failures + 1
    /\ err' = None
    /\ spc' = "connect"
    /\ UNCHANGED <<game_name, fetch>>

NextStream ==
    \/ Connect
    \/ ConnectFails
    \/ Acknowledge
    \/ HandshakeFails
    \/ Subscribe
    \/ SubscribeFails
    \/ Message
    \/ CleanClose
    \/ StreamFails
    \/ Cancel
    \/ Backoff

StreamSpec == InitStream /\ [][NextStream]_vars

-----------------------------------------------------------------------------
(* Properties *)

Front(seq) == SubSeq(seq, 1, Len(seq) - 1)

\* the tokens sent as the `cursor` parameter so far
ConsumedCursors == {requests[i].cursor : i \in {j \in 1..Len(requests) : requests[j].hasCursor}}

\* every request so far carries an offset and no cursor, the i-th offset (i-1)*limit
OffsetRequests ==
    \A i \in 1..Len(requests) :
        requests[i] = [hasCursor |-> FALSE, cursor |-> None, hasOffset |-> TRUE,
                       offset |-> (i - 1) * limit]

AllFull(pages) == \A i \in 1..Len(pages) : Len(pages[i]) = limit

DistinctFingerprints(pages) ==
    \A i, j \in 1..Len(pages) :
        i < j => page_fingerprint(pages[i]) # page_fingerprint(pages[j])

\* the source has answered only with bodies free of pagination metadata
PlainPagesOnly == served # <<>> /\ ~metadataSeen /\ pc # "raised"

\* k >= 0 full pages, then one non-empty page of fewer than `limit` items
FullThenShort ==
    /\ served # <<>>
    /\ AllFull(Front(served))
    /\ Last(served) # <<>>
    /\ Len(Last(served)) < limit

\* the page in hand is non-empty, supplies no next cursor and is short
ShortOffsetPage ==
    /\ served # <<>>
    /\ items # <<>>
    /\ next_cursor = None
    /\ Len(items) < limit

\* the page in hand has the fingerprint of a page received before it
RepeatsEarlierPage ==
    \E i \in 1..(Len(served) - 1) : page_fingerprint(served[i]) = page_fingerprint(items)

\* C1: once the source has served an empty page, the fetch has returned, and
\* what it returned is the concatenation, in order, of all pages served (the
\* non-empty ones: the empty one adds nothing); no request follows.
C1_EmptyPageReturnsConcatenation ==
    (served # <<>> /\ Last(served) = <<>>) =>
        /\ pc = "returned"
        /\ raised = "none"
        /\ result = Flatten(served)
        /\ ~ENABLED SendRequest

C1_Witness ==
    /\ pc = "returned"
    /\ Len(served) = 3
    /\ Last(served) = <<>>
    /\ served[1] # served[2]
    /\ Len(result) = 3

\* C2 as stated (no page ceiling supplied): against a source of full pages and
\* then a short one, all free of metadata, the fetch does not stop on any full
\* page, its requests carry the offsets 0, limit, 2*limit, ..., and after the
\* short page it has returned all items with exactly one request per page.
C2_Original ==
    (PlainPagesOnly /\ ~max_pages.some) =>
        /\ AllFull(served) =>
              /\ pc # "returned"
              /\ OffsetRequests
              /\ Len(requests) \in {Len(served), Len(served) + 1}
              /\ all_items = Flatten(served)
        /\ FullThenShort =>
              /\ pc = "returned"
              /\ OffsetRequests
              /\ Len(requests) = Len(served)
              /\ result = Flatten(served)

\* C2 amended: the same, provided the full pages have pairwise distinct
\* fingerprints and the page ceiling, if any, exceeds the number of full pages.
C2_PlainOffsetPagination ==
    PlainPagesOnly =>
        /\ (AllFull(served) /\ DistinctFingerprints(served)
               /\ (max_pages.some => Len(served) < max_pages.val)) =>
              /\ pc # "returned"
              /\ OffsetRequests
              /\ Len(requests) \in {Len(served), Len(served) + 1}
              /\ all_items = Flatten(served)
        /\ FullThenShort =>
              /\ pc = "returned"
              /\ OffsetRequests
              /\ Len(requests) = Len(served)
              /\ result = Flatten(served)

C2_Witness ==
    /\ PlainPagesOnly
    /\ FullThenShort
    /\ limit = 2
    /\ Len(served) = 3
    /\ pc = "returned"
    /\ Len(result) = 5

\* C3 as stated: a non-empty short page without next cursor is appended and
\* ends the fetch.
C3_Original ==
    ShortOffsetPage =>
        /\ pc = "returned"
        /\ ~ENABLED SendRequest
        /\ all_items = Flatten(served)

\* C3 amended: a non-empty short page without next cursor ends the fetch; it
\* is appended unless it was requested by offset and its fingerprint is that
\* of an earlier page of the fetch, and then it is not appended.
C3_ShortPageEndsFetch ==
    ShortOffsetPage =>
        /\ pc = "returned"
        /\ ~ENABLED SendRequest
        /\ result = all_items
        /\ IF Last(requests).hasOffset /\ RepeatsEarlierPage
           THEN all_items = Flatten(Front(served))
           ELSE all_items = Flatten(served)

C3_Witness ==
    /\ ShortOffsetPage
    /\ stop = "short_page"
    /\ Len(served) = 2
    /\ Last(requests).hasOffset
    /\ Last(requests).offset = 2

\* C4: after a page whose decoded flag is False no request is issued: the
\* fetch has returned, with one request per page received.
C4_FalseFlagStops ==
    (served # <<>> /\ has_more = "False") =>
        /\ pc = "returned"
        /\ ~ENABLED SendRequest
        /\ Len(requests) = Len(served)

C4_Witness ==
    /\ has_more = "False"
    /\ stop = "has_more_false"
    /\ next_cursor = "b"
    /\ Len(items) > limit
    /\ Len(served) = 2

\* C5: the cursor-mode requests carry pairwise distinct tokens, and a page
\* whose next cursor was sent in an earlier request ends the fetch.
C5_NoCursorResent ==
    /\ \A i, j \in 1..Len(requests) :
          (i < j /\ requests[i].hasCursor /\ requests[j].hasCursor)
              => requests[i].cursor # requests[j].cursor
    /\ (served # <<>> /\ Len(requests) = Len(served) /\ next_cursor \in ConsumedCursors) =>
          /\ pc = "returned"
          /\ ~ENABLED SendRequest

C5_Witness ==
    /\ stop = "cursor_repeated"
    /\ ConsumedCursors = {"a", "b"}
    /\ next_cursor = "a"
    /\ Len(requests) = 3

\* C6: a fetch stopped by a repeated cursor returns the concatenation of all
\* pages received, the detecting page included.
C6_RepeatedCursorKeepsAllPages ==
    stop = "cursor_repeated" =>
        /\ pc = "returned"
        /\ items # <<>>
        /\ Last(served) = items
        /\ result = Flatten(served)

C6_Witness ==
    /\ stop = "cursor_repeated"
    /\ Len(served) = 3
    /\ served[1] # served[3]
    /\ Len(result) >= 4

\* C7 as stated: when a decode error ends the fetch after pages were
\* appended, the caller still receives the accumulated items.
C7_PartialResultDelivered ==
    (raised = "RuntimeError" /\ all_items # <<>>) => result = all_items

\* C8: an unrecognized body ends the fetch with the decoder's RuntimeError
\* (not a requests exception); nothing is re-requested, the body is not
\* counted as a page, and on the first page nothing has been accumulated.
C8_UnrecognizedShapeRaises ==
    lastResponse = "unrecognized" =>
        /\ pc = "raised"
        /\ raised = "RuntimeError"
        /\ raised \notin {"ConnectionError", "HTTPError"}
        /\ ~ENABLED Next
        /\ Len(served) = Len(requests) - 1
        /\ all_items = Flatten(served)
        /\ Len(requests) = 1 => (all_items = <<>> /\ page = 0)

C8_Witness ==
    /\ lastResponse = "unrecognized"
    /\ Len(requests) = 1
    /\ pc = "raised"

\* C9: a connection failure or an error status leaves the fetch at once with
\* the transport exception: no retry, no later request, and the failed reply
\* is neither decoded nor appended.
C9_TransportErrorPropagates ==
    lastResponse \in {"connection_error", "http_error"} =>
        /\ pc = "raised"
        /\ raised = (IF lastResponse = "http_error" THEN "HTTPError" ELSE "ConnectionError")
        /\ ~ENABLED Next
        /\ Len(served) = Len(requests) - 1
        /\ all_items = Flatten(served)
        /\ page = Len(served)

C9_Witness ==
    /\ lastResponse = "http_error"
    /\ Len(requests) = 3
    /\ Len(all_items) >= 2

\* C10 as stated: with a ceiling N >= 0, never more than N pages appended and
\* no request in flight once N pages are appended.
C10_CeilingRespected ==
    max_pages.some =>
        /\ page <= max_pages.val
        /\ pc = "await" => page < max_pages.val

NoDuplicates(seq) == \A i, j \in 1..Len(seq) : i < j => seq[i] # seq[j]

\* the page in hand is the reply to the most recent request
PageInHand == served # <<>> /\ Len(requests) = Len(served)

\* C11 as stated: whatever the source does, the returned sequence holds no item
\* twice (checked for sources whose single pages hold no item twice).
C11_ResultDeduplicated ==
    (pc = "returned" /\ \A k \in 1..Len(served) : NoDuplicates(served[k]))
        => NoDuplicates(result)

\* C12 as stated: a request issued in offset mode carries as offset the number
\* of items appended to the accumulator so far.
C12_OffsetIsItemsConsumed ==
    (pc = "await" /\ Last(requests).hasOffset) => Last(requests).offset = Len(all_items)

\* C13: every request carries exactly one of cursor and offset; the first one
\* carries offset 0; a later one carries the next cursor of the most recent
\* page if that page supplied one, and an offset otherwise.
C13_ExactlyOnePaginationParameter ==
    /\ \A i \in 1..Len(requests) : requests[i].hasCursor # requests[i].hasOffset
    /\ requests # <<>> =>
          requests[1] = [hasCursor |-> FALSE, cursor |-> None, hasOffset |-> TRUE, offset |-> 0]
    /\ (pc = "await" /\ Len(requests) > 1) =>
          IF next_cursor # None
          THEN Last(requests).hasCursor /\ Last(requests).cursor = next_cursor
          ELSE Last(requests).hasOffset /\ Last(requests).cursor = None

C13_Witness ==
    /\ pc = "await"
    /\ Len(requests) = 4
    /\ requests[2].hasCursor
    /\ requests[3].hasOffset
    /\ requests[4].hasCursor
    /\ requests[4].cursor = "b"

\* C14: a non-empty page requested by offset whose fingerprint is that of any
\* page consumed earlier in the fetch, by offset or by cursor, is not appended
\* and ends the fetch.
C14_RepeatedPageStopsOffsetMode ==
    (PageInHand /\ Last(requests).hasOffset /\ items # <<>> /\ RepeatsEarlierPage) =>
        /\ stop = "page_repeated"
        /\ pc = "returned"
        /\ ~ENABLED SendRequest
        /\ all_items = Flatten(Front(served))
        /\ result = all_items

\* third occurrence of a fingerprint, the second one consumed in cursor mode
C14_Witness ==
    /\ stop = "page_repeated"
    /\ Len(served) = 3
    /\ requests[2].hasCursor
    /\ page_fingerprint(served[1]) = page_fingerprint(items)
    /\ page_fingerprint(served[2]) = page_fingerprint(items)
    /\ Len(result) = 2

\* C15 as stated: only the page of the first request, at offset 0, can be
\* rejected for its fingerprint.
C15_Original ==
    stop = "page_repeated" =>
        /\ Last(requests).hasOffset
        /\ Last(requests).offset = 0

\* C15 amended: only a page requested by offset (at whatever offset) can be
\* rejected for its fingerprint; a page requested with a cursor is appended
\* even when its fingerprint was seen before.
C15_GuardOnlyInOffsetMode ==
    /\ stop = "page_repeated" => (PageInHand /\ Last(requests).hasOffset)
    /\ (PageInHand /\ Last(requests).hasCursor /\ items # <<>>) =>
          /\ stop # "page_repeated"
          /\ all_items = Flatten(served)

C15_Witness ==
    /\ PageInHand
    /\ Last(requests).hasCursor
    /\ RepeatsEarlierPage
    /\ all_items = Flatten(served)
    /\ Len(served) = 3
    /\ pc = "sleep"

\* the pages appended so far: every page served, but a page the fingerprint
\* guard rejected
AppendedPages == IF stop = "page_repeated" THEN Front(served) ELSE served

\* C17: the accumulator is at all times the concatenation, in retrieval order,
\* of the pages appended so far, and a step either leaves it alone or appends
\* to it the whole page just decoded, counting one page more.
C17_AccumulatorAppendsWholePages ==
    /\ [](all_items = Flatten(AppendedPages))
    /\ [][\/ all_items' = all_items
          \/ /\ served' = Append(served, items')
             /\ all_items' = all_items \o items'
             /\ page' = page + 1]_vars

C17_Witness ==
    /\ pc = "sleep"
    /\ Len(served) = 3
    /\ served[1] # served[2]
    /\ served[1] = served[3]
    /\ Len(all_items) = 5
    /\ all_items = Flatten(served)

\* a step that decodes a non-empty short page with a next cursor not seen
\* before, a flag that is not False and the ceiling not reached by this page
ReceivesShortPageWithNewCursor ==
    /\ pc = "await"
    /\ Len(served') = Len(served) + 1
    /\ items' # <<>>
    /\ Len(items') < limit
    /\ next_cursor' # None
    /\ next_cursor' \notin seen_cursors
    /\ has_more' # "False"
    /\ ~CeilingReached(max_pages, page + 1)

ContinuesWithCursor ==
    /\ pc' = "sleep"
    /\ stop' = "none"
    /\ all_items' = all_items \o items'
    /\ cursor' = next_cursor'
    /\ offset' = offset

\* C20 as stated: such a page never ends the fetch: it is appended, the cursor
\* is taken over and the offset left unchanged.
C20_Original == [][ReceivesShortPageWithNewCursor => ContinuesWithCursor]_vars

\* C20 amended: the same, unless the page was requested by offset and its
\* fingerprint was seen before, in which case the loop guard ends the fetch;
\* and the request that follows a page with a next cursor carries that cursor
\* and no offset.
C20_CursorBeforeShortPage ==
    /\ [][ReceivesShortPageWithNewCursor =>
             IF cursor = None /\ page_fingerprint(items') \in seen_fingerprints
             THEN stop' = "page_repeated" /\ pc' = "returned" /\ all_items' = all_items
             ELSE ContinuesWithCursor]_vars
    /\ [][(pc = "loop" /\ pc' = "await" /\ requests # <<>> /\ next_cursor # None) =>
             /\ Last(requests').hasCursor
             /\ Last(requests').cursor = next_cursor
             /\ ~Last(requests').hasOffset]_vars

C20_Witness ==
    /\ pc = "await"
    /\ limit = 2
    /\ Len(requests) = 3
    /\ requests[2].hasOffset
    /\ requests[2].offset = 2
    /\ Len(items) = 1
    /\ Last(requests).hasCursor
    /\ Last(requests).cursor = next_cursor
    /\ offset = 2

\* the printed lines that are not per-page progress
TerminationReports == SelectSeq(printed, LAMBDA m : m.text # "page")

LoopGuards == {"page_repeated", "cursor_repeated"}

\* C19 as stated: a fetch that has returned has printed exactly one
\* termination report, as its last line, and that report is a loop message
\* exactly when a loop guard stopped the fetch.
C19_Original ==
    pc = "returned" =>
        /\ Len(TerminationReports) = 1
        /\ Last(printed) = TerminationReports[1]
        /\ Last(printed) \in {PageRepeatedMessage, CursorRepeatedMessage} <=> stop \in LoopGuards

\* C19 amended: a fetch stopped by a loop guard has printed exactly one loop
\* message, naming the guard, as its last line; a fetch that ended otherwise,
\* or has not ended, has printed none.
C19_LoopMessageIffLoopGuard ==
    IF pc = "returned" /\ stop \in LoopGuards
    THEN /\ Len(TerminationReports) = 1
         /\ Last(printed) = (IF stop = "page_repeated" THEN PageRepeatedMessage
                             ELSE CursorRepeatedMessage)
    ELSE TerminationReports = <<>>

C19_Witness ==
    /\ pc = "returned"
    /\ stop = "cursor_repeated"
    /\ Len(printed) = 4
    /\ Last(printed) = CursorRepeatedMessage
    /\ printed[3] = ProgressMessage(3, 1, 4)

\* the cursor names present at the top level and under "pagination"
TopCursorNames ==
    {i \in 1..Len(PaginationCursorKeys) : PaginationCursorKeys[i] \in DOMAIN payload.top}
NestedCursorNames ==
    {i \in 1..Len(PaginationCursorKeys) :
        payload.pagIsDict /\ PaginationCursorKeys[i] \in DOMAIN payload.pag}

\* the only cursor key of the body holds this value
SoleCursorIs(v) ==
    /\ payload.kind = "dict"
    /\ Cardinality(TopCursorNames) + Cardinality(NestedCursorNames) = 1
    /\ \/ \E i \in TopCursorNames : payload.top[PaginationCursorKeys[i]] = v
       \/ \E i \in NestedCursorNames : payload.pag[PaginationCursorKeys[i]] = v

\* C16 as stated: a body of recognized shape whose only cursor key, under any
\* of the five names and at either level, holds a non-empty token decodes to
\* that token as next cursor.
C16_FiveNamesBothLevels ==
    \A token \in Tokens :
        (pc = "decoded" /\ SoleCursorIs(JStr(token))) => next_cursor = token

\* the state of the call in focus as its own history determines it
OwnState ==
    /\ all_items = Flatten(AppendedPages)
    /\ page = Cardinality({k \in 1..Len(AppendedPages) : AppendedPages[k] # <<>>})
    /\ seen_fingerprints =
          {page_fingerprint(AppendedPages[k]) :
              k \in {j \in 1..Len(AppendedPages) : AppendedPages[j] # <<>>}}
    /\ seen_cursors = ConsumedCursors \cup ({cursor} \ {None})
    /\ pc = "returned" => result = all_items

\* C18: with the steps of two calls interleaved at will, a step of one call
\* leaves the frame of the other as it was, a switch hands each call its own
\* frame back, and the state of the running call (hence its next request and
\* its result) is the one its own requests and replies determine.
C18_CallsShareNoState ==
    /\ [][condition_id' = condition_id => parked' = parked]_vars
    /\ [][condition_id' # condition_id => (Frame' = parked[1] /\ parked' = <<Frame>>)]_vars
    /\ []OwnState
    /\ []C13_ExactlyOnePaginationParameter

\* both calls under way, each with a page appended and a second request out
C18_Witness ==
    /\ parked # <<>>
    /\ pc = "await"
    /\ parked[1].pc = "await"
    /\ Len(requests) = 2
    /\ Len(parked[1].requests) = 2
    /\ all_items # <<>>
    /\ parked[1].all_items # <<>>
    /\ all_items # parked[1].all_items

\* a step that decodes a page of exactly `limit` items without next cursor,
\* with a fingerprint not seen before, a flag that is not False and the
\* ceiling not reached by this page
ReceivesFullPageWithoutCursor ==
    /\ pc = "await"
    /\ Len(served') = Len(served) + 1
    /\ Len(items') = limit
    /\ next_cursor' = None
    /\ page_fingerprint(items') \notin seen_fingerprints
    /\ has_more' # "False"
    /\ ~CeilingReached(max_pages, page + 1)

\* C21: such a page does not end the fetch: it is appended, the offset grows
\* by the number of its items and nothing else changes it before the next
\* request, which carries that offset and no cursor.
C21_FullPageAdvancesOffset ==
    /\ [][ReceivesFullPageWithoutCursor =>
             /\ pc' = "sleep"
             /\ stop' = "none"
             /\ all_items' = all_items \o items'
             /\ cursor' = None
             /\ offset' = offset + Len(items')]_vars
    /\ [][pc = "sleep" => (pc' = "loop" /\ offset' = offset /\ cursor' = cursor)]_vars
    /\ [][(pc = "loop" /\ pc' = "await" /\ next_cursor = None) =>
             /\ Last(requests').hasOffset
             /\ Last(requests').offset = offset
             /\ ~Last(requests').hasCursor]_vars

C21_Witness ==
    /\ pc = "await"
    /\ limit = 2
    /\ Len(requests) = 3
    /\ requests[2].hasOffset
    /\ requests[2].offset = 2
    /\ Last(requests).hasOffset
    /\ Last(requests).offset = 4
    /\ has_more = "True"

\* C22: a step that decodes an empty page ends the fetch with the accumulator
\* as result and leaves the accumulator, the page counter, the offset, the
\* cursor and both seen sets as they were, whatever next cursor or flag the
\* page carries; no request follows.
C22_EmptyPageChangesNothing ==
    /\ [][(pc = "await" /\ Len(served') = Len(served) + 1 /\ items' = <<>>) =>
             /\ pc' = "returned"
             /\ stop' = "empty"
             /\ raised' = "none"
             /\ result' = all_items
             /\ UNCHANGED fetchState
             /\ UNCHANGED requests]_vars
    /\ [][stop = "empty" => UNCHANGED requests]_vars

\* an empty page with a new next cursor and more-data true, after a page
C22_Witness ==
    /\ stop = "empty"
    /\ pc = "returned"
    /\ items = <<>>
    /\ next_cursor = "b"
    /\ next_cursor \notin seen_cursors
    /\ has_more = "True"
    /\ page = 1
    /\ result # <<>>

\* C24: the requests issued never outnumber the distinct cursor tokens
\* recorded plus the distinct fingerprints recorded plus one; both are among
\* those the source has produced.
C24_RequestsBounded ==
    /\ Len(requests) <= Cardinality(seen_cursors) + Cardinality(seen_fingerprints) + 1
    /\ seen_cursors \subseteq Tokens
    /\ seen_fingerprints \subseteq
          {page_fingerprint(served[k]) : k \in 1..Len(served)}

\* the bound attained: two tokens, one fingerprint, four requests
C24_Witness ==
    /\ pc = "returned"
    /\ stop = "page_repeated"
    /\ Len(requests) = 4
    /\ Cardinality(seen_cursors) = 2
    /\ Cardinality(seen_fingerprints) = 1

\* C23: with a non-zero delay the fetch has paused once before every request
\* but the first, and not after the last one: n - 1 pauses for n >= 1 requests,
\* one more only when the pause before the next request is already taken;
\* with a zero delay it never pauses.
C23_PausesBetweenRequests ==
    IF sleep = 0 THEN pauses = 0
    ELSE /\ pc = "loop" => pauses = Len(requests)
         /\ pc # "loop" => pauses = Len(requests) - 1

C23_Witness ==
    /\ sleep # 0
    /\ pc = "returned"
    /\ stop = "short_page"
    /\ Len(requests) = 3
    /\ pauses = 2

RECURSIVE Pow2(_)
Pow2(n) == IF n = 0 THEN 1 ELSE 2 * Pow2(n - 1)

\* C25: the backoff is one of 0.5, 1, 2, 4, 8, 10 s, namely 0.5 s doubled once
\* per failed attempt since the last acknowledged connection and capped at
\* 10 s; a failed attempt, whichever pause it took, doubles and caps it and
\* leads back to connecting; an acknowledgement resets it to 0.5 s; and the
\* loop is left by cancellation only.
C25_BackoffBounded ==
    /\ [](backoff \in {500, 1000, 2000, 4000, 8000, 10000})
    /\ [](backoff = Min(500 * Pow2(failures), 10000))
    /\ [][spc = "failed" => (backoff' = Min(2 * backoff, 10000) /\ spc' = "connect")]_vars
    /\ [][(spc = "handshake" /\ spc' \in {"subscribe", "streaming"}) => backoff' = 500]_vars
    /\ [](spc \in AwaitPoints \cup {"failed", "cancelled"})
    /\ [][spc' = "cancelled" => (spc = "cancelled" \/ (spc \in AwaitPoints /\ err = None))]_vars

\* at the cap after six failed attempts, the last one paused by the policy
C25_Witness ==
    /\ spc = "connect"
    /\ failures = 6
    /\ backoff = 10000
    /\ sleep_for = 60000
    /\ game_name # None

====
